---- MODULE Spec2Model ----
(***************************************************************************)
(* Meeting-recording state machine of the Lemur AI backend                 *)
(* (backend_clean/app/core/meeting_intelligence.py, recall_service.py and  *)
(* the entry points of backend_clean/app/api/meeting_intelligence.py).     *)
(*                                                                         *)
(* One event loop runs every coroutine: a step of the model is the code a  *)
(* coroutine executes between two real suspension points (asyncio.sleep    *)
(* in the monitor, the aiohttp download in the processing routine).  The   *)
(* calls to the recording provider, the completion provider and the store  *)
(* are synchronous in the code, so they do not split a step; what they     *)
(* answer is an input of the step.                                         *)
(*                                                                         *)
(* Spec and MonitorFairSpec take the provider client as an oracle.  The    *)
(* client itself (RecallAIBot: its bot_id and bot_data fields and what it  *)
(* makes of each HTTP response) is the subject of ClientSpec, where its    *)
(* methods are called one after the other on one instance.                 *)
(***************************************************************************)
EXTENDS Integers, Sequences, FiniteSets, TLC

\* ------------------------------------------------------------------ bounds
\* successful start calls, and calls of the manual entry points
MaxStarts == 2

MaxManual == 1

\* ------------------------------------------------------------- value sets
MeetingIds == {"m1"}

\* status codes the provider reports in this model
EventCodes == {"done", "failed", "fatal"}

AttendeeLists == {<<"a@x">>}

\* Python's None, where a field may hold it instead of a string
None == "None"

\* the scope keys and the title a start request carries
ClientIds == {"c1"}

SubClientIds == {None}

MeetingTitles == {"Meeting"}

Kinds == <<"summary", "action_items", "follow_up_email">>

NoResult == [success |-> FALSE, status |-> "none"]

NoCall ==
  [called |-> FALSE, meeting_id |-> "none",
   bot_result |-> [success |-> FALSE, bot_id |-> 0], success |-> FALSE]

\* bot data that is None
NoData == [id |-> 0, rev |-> 0]

\* RecallAIBot.__init__: no current bot, nothing cached
NewClient == [bot_id |-> 0, bot_data |-> NoData]

NoClientCall == [op |-> "none"]

\* a vector store in which no collection was created: the names of the
\* collections, and the chunks added to them
NoCollections == [names |-> {}, chunks |-> {}]

VARIABLES
  active_meetings,   \* meeting_id -> index into sessions, 0 = key absent
  sessions,          \* the meeting_data dicts ever created, by identity
  monitors,          \* one _monitor_meeting_completion task per created dict
  procs,             \* the pending _process_completed_meeting tasks
  processing_queue,  \* MeetingIntelligenceService.processing_queue
  outputs,           \* rows of the outputs table
  start_call,        \* bot_result and return value of the last start call
  manual_calls,      \* calls of the manual entry points so far
  client,            \* ClientSpec: the bot_id and bot_data fields of a RecallAIBot
  chroma_client,     \* VectorSpec: the collections of the vector store
  call               \* ClientSpec, ProcessingSpec: the last call or step taken,
                     \* with its inputs and what it returned

vars == <<active_meetings, sessions, monitors, procs, processing_queue, outputs,
          start_call, manual_calls, client, chroma_client, call>>

\* the variables of the service, and those of the client on its own
serviceVars == <<active_meetings, sessions, monitors, procs, processing_queue,
                 outputs, start_call, manual_calls>>

clientVars == <<client, call>>

\* ---------------------------------------------------------------- helpers
SeqsUpTo(S, n) == UNION {[1..k -> S] : k \in 0..n}

\* the first element instead of the last
FirstOf(s) == s[1]

Last(s) == s[Len(s)]

Remove(s, k) == [n \in 1..(Len(s) - 1) |-> IF n < k THEN s[n] ELSE s[n + 1]]

\* status_changes[-1].get('code', 'unknown')
EventCode(e) == IF "code" \in DOMAIN e THEN e.code ELSE "unknown"

\* ------------------------------------------------- Recording Job Client
Events == {[code |-> c] : c \in EventCodes}

\* The status histories of the replies: empty, or one event.
StatusHistories == SeqsUpTo(Events, 1)

\* What GET /bot/{id} can answer: an error, or the bot data.
BotReplies ==
  {[ok |-> FALSE, status_changes |-> <<>>, recordings |-> 0]} \cup
  {[ok |-> TRUE, status_changes |-> sc, recordings |-> r] :
      sc \in StatusHistories, r \in 0..1}

\* RecallAIBot.get_bot_status: the tagged result built from one reply.
get_bot_status(reply) ==
  IF ~reply.ok
    THEN [success |-> FALSE, status |-> "none"]
    ELSE IF Len(reply.status_changes) > 0
      THEN [success |-> TRUE, status |-> EventCode(Last(reply.status_changes))]
      ELSE IF reply.recordings > 0
        THEN [success |-> TRUE, status |-> "done"]
        ELSE [success |-> TRUE, status |-> "waiting_to_join"]

\* RecallAIBot.create_bot: POST /bot answers an id, or the call raises and
\* the except clause builds the failure result.
create_bot(provider_ok, next_id) ==
  IF provider_ok THEN [success |-> TRUE, bot_id |-> next_id]
                 ELSE [success |-> FALSE, bot_id |-> 0]

\* --------------------------------------------- start_meeting_recording
\* A start that skips the check of bot_result["success"].
StartRegistersUnchecked(bot_result) == TRUE

\* lines 69-70: a failed bot_result raises, and the except clause returns.
StartRegisters(bot_result) == bot_result.success

\* processed_at is a key the dict gets when the processing run ends
NewMeetingData(meeting_id, bot_id, client_id, sub_client_id, attendees, meeting_title) ==
  [meeting_id |-> meeting_id, bot_id |-> bot_id, client_id |-> client_id,
   sub_client_id |-> sub_client_id, attendees |-> attendees,
   meeting_title |-> meeting_title,
   status |-> "recording", processed |-> FALSE, processed_at |-> "absent"]

NewMonitor(meeting_id) ==
  [meeting_id |-> meeting_id, pc |-> "created", meeting_data |-> 0,
   status_result |-> NoResult, scheduled |-> 0]

start_meeting_recording(meeting_id, client_id, sub_client_id, attendees, meeting_title, provider_ok) ==
  LET bot_result == create_bot(provider_ok, Len(sessions) + 1) IN
  /\ provider_ok => Len(sessions) < MaxStarts
  /\ IF StartRegisters(bot_result)
       THEN /\ sessions' = Append(sessions,
                 NewMeetingData(meeting_id, bot_result.bot_id, client_id,
                                sub_client_id, attendees, meeting_title))
            /\ active_meetings' =
                 [active_meetings EXCEPT ![meeting_id] = Len(sessions) + 1]
            /\ monitors' = Append(monitors, NewMonitor(meeting_id))
            /\ start_call' = [called |-> TRUE, meeting_id |-> meeting_id,
                               bot_result |-> bot_result, success |-> TRUE]
       ELSE /\ start_call' = [called |-> TRUE, meeting_id |-> meeting_id,
                               bot_result |-> bot_result, success |-> FALSE]
            /\ UNCHANGED <<sessions, active_meetings, monitors>>
  /\ UNCHANGED <<procs, processing_queue, outputs, manual_calls>>

\* ------------------------------------------- _monitor_meeting_completion
DoneCodes == {"done", "completed", "finished"}

FailCodes == {"failed", "error"}

\* A loop that gives up on a failed poll.
StatusAfterPollGivingUp(old, sr) ==
  IF sr.success
    THEN IF sr.status \in DoneCodes THEN sr.status
         ELSE IF sr.status \in FailCodes THEN "failed" ELSE sr.status
    ELSE "failed"

\* lines 128-147: what one iteration leaves in meeting_data["status"].
StatusAfterPoll(old, sr) ==
  IF sr.success
    THEN IF sr.status \in DoneCodes THEN sr.status
         ELSE IF sr.status \in FailCodes THEN "failed" ELSE sr.status
    ELSE old

\* A loop without the break of line 143.
LoopBreaksOnFailureOnly(sr) == sr.success /\ sr.status \in FailCodes

\* A loop that also ends when the poll itself failed.
LoopBreaksOnError(sr) ==
  ~sr.success \/ sr.status \in DoneCodes \/ sr.status \in FailCodes

\* lines 143 and 148: the two break statements.
LoopBreaks(sr) ==
  sr.success /\ (sr.status \in DoneCodes \/ sr.status \in FailCodes)

\* lines 135-142: the branch that schedules the processing routine.
SchedulesProcessing(sr) == sr.success /\ sr.status \in DoneCodes

NoDownload == [success |-> FALSE, transcript_url |-> FALSE, embedded |-> ""]

\* a created task; meeting_data and download_result are its locals
NewProc(meeting_id) ==
  [meeting_id |-> meeting_id, pc |-> "created", meeting_data |-> 0,
   download_result |-> NoDownload]

\* lines 113-119: the task's first run, up to the first asyncio.sleep.
MonitorBegin(i) ==
  /\ i \in 1..Len(monitors)
  /\ monitors[i].pc = "created"
  /\ \A j \in 1..(i-1) : monitors[j].pc # "created"
  /\ LET md == active_meetings[monitors[i].meeting_id] IN
       monitors' = [monitors EXCEPT ![i] =
          IF md = 0 THEN [@ EXCEPT !.pc = "exited"]
                    ELSE [@ EXCEPT !.pc = "sleeping", !.meeting_data = md]]
  /\ UNCHANGED <<active_meetings, sessions, procs, processing_queue, outputs,
                 start_call, manual_calls>>

\* lines 122-148: one iteration, from the wake-up to the next sleep or break.
MonitorPoll(i, reply) ==
  /\ i \in 1..Len(monitors)
  /\ monitors[i].pc = "sleeping"
  /\ LET md == monitors[i].meeting_data
         sr == get_bot_status(reply)
     IN /\ sessions' = [sessions EXCEPT ![md].status = StatusAfterPoll(@, sr)]
        /\ monitors' = [monitors EXCEPT ![i] =
              [@ EXCEPT !.status_result = sr,
                        !.pc = IF LoopBreaks(sr) THEN "exited" ELSE "sleeping",
                        !.scheduled = IF SchedulesProcessing(sr) THEN @ + 1 ELSE @]]
        /\ IF SchedulesProcessing(sr)
             THEN /\ processing_queue' = Append(processing_queue, monitors[i].meeting_id)
                  /\ procs' = Append(procs, NewProc(monitors[i].meeting_id))
             ELSE UNCHANGED <<processing_queue, procs>>
  /\ UNCHANGED <<active_meetings, outputs, start_call, manual_calls>>

\* ------------------------------------------- _process_completed_meeting
KindSet == {Kinds[n] : n \in 1..Len(Kinds)}

\* What get_download_urls can answer (it always refetches the bot data):
\* an error, or bot data with or without a transcript download URL and with
\* or without transcript text embedded in the recordings.
DownloadReplies ==
  {[success |-> FALSE, transcript_url |-> FALSE, embedded |-> ""]} \cup
  {[success |-> TRUE, transcript_url |-> u, embedded |-> t] :
      u \in BOOLEAN, t \in {"", "hello world"}}

\* What the transcript download can yield: None (HTTP error) or the text.
DownloadedTexts == {"", "hello world"}

\* A run that goes on without a transcript.
HasTextAlways(text) == TRUE

\* if transcript_text: None and the empty text both count as no transcript
HasText(text) == text # ""

\* Outcomes of the generation calls and of the inserts: the kinds that
\* succeed.  Here every call succeeds.
GenOutcomes == {KindSet}

\* An outcome of the store: the kinds the standard path inserts and the
\* kinds a direct insert would accept.  Here both accept everything.
DbOutcomes == {[standard |-> KindSet, direct |-> KindSet]}

\* _generate_meeting_ai_content, lines 346-374: the kinds it asks for.
KindsAttempted(md) ==
  IF md.attendees # <<>> THEN KindSet ELSE KindSet \ {"follow_up_email"}

\* A generation step in which one failure fails every kind.
GeneratedAllOrNothing(k, md, gen) == k \in KindsAttempted(md) /\ gen = KindSet

\* lines 349-372 and 397: results[k] exists and has success set; each kind
\* is generated by a call of its own (ai_service.generate_content returns
\* a failure result instead of raising).
Generated(k, md, gen) == k \in KindsAttempted(md) /\ k \in gen

\* generate_content, line 93: the content of a successful result
ContentOf(k) == <<k, "text">>

\* DatabaseManager.create_output: the insert happens or the exception is
\* caught and None returned; the call never raises.
create_output(k, db) == [raised |-> FALSE, inserted |-> k \in db.standard]

\* _store_output_direct: the direct insert
store_output_direct(k, db) == k \in db.direct

\* lines 425-444: the direct insert is tried in the except clause only
Persisted(k, db) ==
  IF create_output(k, db).raised THEN store_output_direct(k, db)
                                 ELSE create_output(k, db).inserted

\* models/output.py, Output: client_id is a required str, so the
\* constructor raises a validation error when the meeting holds None
\* there; the title, the prompt, the content of a successful generation,
\* the user id and the meeting id are strings on every path.
OutputBuilds(md) == md.client_id # None

\* _store_meeting_results, lines 396-427: the kinds whose record is built
\* and handed to create_output, in dict order.  Output(...) at 411-423 is
\* outside the inner try: when it raises, the except clause at 448 is the
\* one that catches, and the loop is over.
RECURSIVE HandedToPersistence(_, _, _)
HandedToPersistence(md, gen, n) ==
  IF n > Len(Kinds) THEN <<>>
  ELSE LET k == Kinds[n] IN
       IF ~Generated(k, md, gen) THEN HandedToPersistence(md, gen, n + 1)
       ELSE IF ~OutputBuilds(md) THEN <<>>
       ELSE <<k>> \o HandedToPersistence(md, gen, n + 1)

\* _store_meeting_results, lines 396-444: the rows inserted, in dict
\* order, for the kinds handed to persistence whose insert the store
\* accepted (db).
RowsStored(md, gen, db, n) ==
  LET kept == SelectSeq(HandedToPersistence(md, gen, n),
                        LAMBDA k : Persisted(k, db))
  IN [i \in 1..Len(kept) |->
        [meeting_id |-> md.meeting_id, output_type |-> kept[i],
         content |-> ContentOf(kept[i])]]

\* A store that keeps one row per meeting and kind.
UpsertRows(table, rows) ==
  LET kept == SelectSeq(table, LAMBDA old :
                 \A n \in 1..Len(rows) :
                    ~(rows[n].meeting_id = old.meeting_id
                      /\ rows[n].output_type = old.output_type))
  IN kept \o [n \in 1..Len(rows) |->
                [id |-> Len(table) + n, meeting_id |-> rows[n].meeting_id,
                 output_type |-> rows[n].output_type, content |-> rows[n].content]]

\* table("outputs").insert(...): the row is added under an id the store
\* has not given out before.
InsertRows(table, rows) ==
  table \o [n \in 1..Len(rows) |->
              [id |-> Len(table) + n, meeting_id |-> rows[n].meeting_id,
               output_type |-> rows[n].output_type, content |-> rows[n].content]]

\* A run that marks the session only when it stored something.
ProcessedIfStored(rows) == rows # <<>>

\* lines 225-226: the mark is set whatever was stored
ProcessedAfterRun(rows) == TRUE

\* A run that sets the processed mark on every registered meeting.
FinishProcessingMarksAll(k, md, gen, db) ==
  /\ outputs' = InsertRows(outputs, RowsStored(sessions[md], gen, db, 1))
  /\ sessions' = [n \in 1..Len(sessions) |->
                    [sessions[n] EXCEPT !.processed = TRUE, !.processed_at = "now"]]
  /\ procs' = Remove(procs, k)

\* lines 206-229: context, generation, storage and the processed mark; the
\* calls made here are synchronous, so this runs without interruption.
FinishProcessing(k, md, gen, db) ==
  LET rows == RowsStored(sessions[md], gen, db, 1) IN
  /\ outputs' = InsertRows(outputs, rows)
  /\ sessions' = IF ProcessedAfterRun(rows)
                   THEN [sessions EXCEPT ![md].processed = TRUE,
                                         ![md].processed_at = "now"]
                   ELSE sessions
  /\ procs' = Remove(procs, k)

\* lines 155-204: the task's first run, up to the transcript download or,
\* when there is no transcript URL, to the end of the routine.
ProcessBegin(k, dl, gen, db) ==
  /\ k \in 1..Len(procs)
  /\ procs[k].pc = "created"
  /\ \A j \in 1..(k-1) : procs[j].pc # "created"
  /\ LET md == active_meetings[procs[k].meeting_id] IN
       IF md = 0 \/ ~dl.success
         THEN /\ procs' = Remove(procs, k)
              /\ UNCHANGED <<sessions, outputs>>
         ELSE IF dl.transcript_url
           THEN /\ procs' = [procs EXCEPT ![k].pc = "downloading",
                                           ![k].meeting_data = md,
                                           ![k].download_result = dl]
                /\ UNCHANGED <<sessions, outputs>>
           ELSE IF HasText(dl.embedded)
             THEN FinishProcessing(k, md, gen, db)
             ELSE /\ procs' = Remove(procs, k)
                  /\ UNCHANGED <<sessions, outputs>>
  /\ UNCHANGED <<active_meetings, monitors, processing_queue, start_call, manual_calls>>

\* lines 187-193 and 206-229: the download returns and the routine ends.
ProcessDownloaded(k, text, gen, db) ==
  /\ k \in 1..Len(procs)
  /\ procs[k].pc = "downloading"
  /\ IF HasText(text)
       THEN FinishProcessing(k, procs[k].meeting_data, gen, db)
       ELSE /\ procs' = Remove(procs, k)
            /\ UNCHANGED <<sessions, outputs>>
  /\ UNCHANGED <<active_meetings, monitors, processing_queue, start_call, manual_calls>>

\* ---------------------------------------------------------- entry points
\* api manually_process_meeting: 404 unless the meeting is registered.
manually_process_meeting(meeting_id) ==
  /\ manual_calls < MaxManual
  /\ active_meetings[meeting_id] # 0
  /\ procs' = Append(procs, NewProc(meeting_id))
  /\ manual_calls' = manual_calls + 1
  /\ UNCHANGED <<active_meetings, sessions, monitors, processing_queue, outputs, start_call>>

\* api debug_reprocess_meeting: no check at all.
debug_reprocess_meeting(meeting_id) ==
  /\ manual_calls < MaxManual
  /\ procs' = Append(procs, NewProc(meeting_id))
  /\ manual_calls' = manual_calls + 1
  /\ UNCHANGED <<active_meetings, sessions, monitors, processing_queue, outputs, start_call>>

\* ---------------------------------------------------------- specification
Init ==
  /\ active_meetings = [m \in MeetingIds |-> 0]
  /\ sessions = <<>>
  /\ monitors = <<>>
  /\ procs = <<>>
  /\ processing_queue = <<>>
  /\ outputs = <<>>
  /\ start_call = NoCall
  /\ manual_calls = 0
  /\ client = NewClient
  /\ chroma_client = NoCollections
  /\ call = NoClientCall

\* The steps of the service; the client's own fields are not part of them.
Start ==
  /\ \E m \in MeetingIds, c \in ClientIds, s \in SubClientIds,
        a \in AttendeeLists, t \in MeetingTitles, ok \in BOOLEAN :
        start_meeting_recording(m, c, s, a, t, ok)
  /\ UNCHANGED <<clientVars, chroma_client>>

MonitorBeginStep ==
  /\ \E i \in 1..MaxStarts : MonitorBegin(i)
  /\ UNCHANGED <<clientVars, chroma_client>>

MonitorPollOf(i) ==
  /\ \E reply \in BotReplies : MonitorPoll(i, reply)
  /\ UNCHANGED <<clientVars, chroma_client>>

MonitorPollStep == \E i \in 1..MaxStarts : MonitorPollOf(i)

\* Spec leaves out the reply that has both a download URL and an embedded
\* transcript; ProcessingSpec draws from all of DownloadReplies.
ServiceDownloadReplies ==
  {dl \in DownloadReplies : dl.transcript_url => dl.embedded = ""}

ProcessBeginStep ==
  /\ \E k \in 1..(MaxStarts + MaxManual), dl \in ServiceDownloadReplies,
        gen \in GenOutcomes, db \in DbOutcomes : ProcessBegin(k, dl, gen, db)
  /\ UNCHANGED <<clientVars, chroma_client>>

ProcessDownloadedStep ==
  /\ \E k \in 1..(MaxStarts + MaxManual), text \in DownloadedTexts,
        gen \in GenOutcomes, db \in DbOutcomes : ProcessDownloaded(k, text, gen, db)
  /\ UNCHANGED <<clientVars, chroma_client>>

ManualStep ==
  /\ \E m \in MeetingIds : manually_process_meeting(m)
  /\ UNCHANGED <<clientVars, chroma_client>>

DebugStep ==
  /\ \E m \in MeetingIds : debug_reprocess_meeting(m)
  /\ UNCHANGED <<clientVars, chroma_client>>

Next ==
  \/ Start
  \/ MonitorBeginStep
  \/ MonitorPollStep
  \/ ProcessBeginStep
  \/ ProcessDownloadedStep
  \/ ManualStep
  \/ DebugStep

Spec == Init /\ [][Next]_vars

\* The service on its own: start calls, the monitors and the processing
\* tasks the monitors schedule.  The two manual entry points only add
\* processing tasks; they touch neither a monitor nor a session's status.
MonitorNext ==
  \/ Start
  \/ MonitorBeginStep
  \/ MonitorPollStep
  \/ ProcessBeginStep
  \/ ProcessDownloadedStep

\* The event loop runs every ready task: a monitor wakes up from its sleep
\* and a created processing task gets its first run.
MonitorFairSpec ==
  /\ Init /\ [][MonitorNext]_vars
  /\ WF_vars(MonitorBeginStep)
  /\ \A i \in 1..MaxStarts : WF_vars(MonitorPollOf(i))
  /\ WF_vars(ProcessBeginStep)
  /\ WF_vars(ProcessDownloadedStep)

\* ------------------------------------------------------------- properties
SessionStatuses == {"recording", "completed", "failed"}

\* the status of the session registered under meeting_id m
StatusOf(m) ==
  IF active_meetings[m] = 0 THEN "absent" ELSE sessions[active_meetings[m]].status

\* a step in which monitor i ran one iteration of its loop
PollStep(i) ==
  /\ i <= Len(monitors)
  /\ monitors[i].pc = "sleeping"
  /\ monitors'[i] # monitors[i]

\* the processing tasks of meeting m that wait in the transcript download
InFlight(m) ==
  {k \in 1..Len(procs) : procs[k].meeting_id = m /\ procs[k].pc = "downloading"}

\* C1: the status of a meeting's session only moves recording -> completed
\* or recording -> failed, and never changes once it is completed or failed.
C1_StatusOnlyMovesForward ==
  [][\A m \in MeetingIds :
       (active_meetings[m] # 0 /\ StatusOf(m)' # StatusOf(m))
         => (StatusOf(m) = "recording" /\ StatusOf(m)' \in {"completed", "failed"})]_vars

\* C2: once a monitor loop has started, the status of its session is one of
\* recording, completed, failed, whatever code the provider reports.
C2_StatusAmongThree ==
  \A i \in 1..Len(monitors) :
     (monitors[i].pc # "created" /\ monitors[i].meeting_data # 0)
       => sessions[monitors[i].meeting_data].status \in SessionStatuses

\* C3: a successful poll that reports fatal or failed moves the session to
\* failed and ends the monitor loop.
C3_TerminalFailureStopsLoop ==
  [][\A i \in 1..Len(monitors) :
       (/\ PollStep(i)
        /\ monitors'[i].status_result.success
        /\ monitors'[i].status_result.status \in {"fatal", "failed"})
         => (/\ sessions'[monitors[i].meeting_data].status = "failed"
             /\ monitors'[i].pc = "exited")]_vars

\* C4: no processing run is under way, and no artifact is persisted, for a
\* meeting whose session is failed or still recording.
C4_ProcessingOnlyWhenCompleted ==
  [][/\ \A k \in 1..Len(procs') :
           procs'[k].pc = "downloading"
             => sessions'[procs'[k].meeting_data].status \notin {"recording", "failed"}
     /\ Len(outputs') > Len(outputs)
           => sessions'[active_meetings'[Last(outputs').meeting_id]].status
                 \notin {"recording", "failed"}]_vars

\* C5: for one meeting_id at most one execution of the processing routine
\* is in flight at any time.
C5_NoOverlappingProcessing ==
  \A m \in MeetingIds : Cardinality(InFlight(m)) <= 1

\* C6: a monitor schedules the processing routine at most once: the poll
\* that reports done appends one processing task and ends the loop, and a
\* monitor that has ended never polls or schedules again.
C6_SchedulesAtMostOnce ==
  [][\A i \in 1..Len(monitors) :
       /\ monitors'[i].scheduled <= 1
       /\ (PollStep(i) /\ monitors'[i].status_result = [success |-> TRUE, status |-> "done"])
            => /\ monitors'[i].pc = "exited"
               /\ monitors'[i].scheduled = monitors[i].scheduled + 1
               /\ procs' = Append(procs, NewProc(monitors[i].meeting_id))
       /\ monitors'[i].scheduled # monitors[i].scheduled => monitors'[i].pc = "exited"
       /\ monitors[i].pc = "exited" => monitors'[i] = monitors[i]]_vars

C6_Witness ==
  \E i \in 1..Len(monitors) :
     /\ monitors[i].pc = "exited"
     /\ monitors[i].scheduled = 1
     /\ monitors[i].status_result.status = "done"

\* C7: if from some point on every poll of a monitor reports done, the loop
\* ends and the processing task it scheduled gets its first run; and a loop
\* ends, or a session shows completed or failed, only after a poll observed
\* a terminal status.
TerminalCodes == {"done", "completed", "finished", "failed", "error", "fatal"}

TerminalObserved(sr) == sr.success /\ sr.status \in TerminalCodes

C7_Safe ==
  /\ \A i \in 1..Len(monitors) :
        monitors[i].pc = "exited" => TerminalObserved(monitors[i].status_result)
  /\ \A n \in 1..Len(sessions) :
        sessions[n].status \in {"completed", "failed"}
          => \E i \in 1..Len(monitors) :
                /\ monitors[i].meeting_data = n
                /\ TerminalObserved(monitors[i].status_result)

C7_ExitedAndStarted(i) ==
  /\ Len(monitors) >= i
  /\ monitors[i].pc = "exited"
  /\ monitors[i].status_result.status = "done"
       => /\ monitors[i].scheduled = 1
          /\ \A k \in 1..Len(procs) :
                procs[k].meeting_id = monitors[i].meeting_id => procs[k].pc # "created"

\* an iteration of monitor i whose poll does not report done
OtherPoll(i) ==
  \E reply \in BotReplies :
     /\ get_bot_status(reply) # [success |-> TRUE, status |-> "done"]
     /\ MonitorPoll(i, reply)

C7_DoneEndsLoop ==
  /\ \A i \in 1..MaxStarts :
        (/\ <>(Len(monitors) >= i)
         /\ <>[][~OtherPoll(i)]_vars)
          => <>C7_ExitedAndStarted(i)
  /\ []C7_Safe

C7_Witness ==
  \E i \in 1..Len(monitors) :
     /\ monitors[i].pc = "exited"
     /\ monitors[i].scheduled = 1
     /\ procs = <<>>
     /\ sessions[monitors[i].meeting_data].processed

\* C8: a start for a meeting_id that is already registered returns a
\* failure, starts no monitor and leaves the registered session alone.
C8_DuplicateStartRejected ==
  [][\A m \in MeetingIds :
       (/\ active_meetings[m] # 0
        /\ start_call' # start_call
        /\ start_call'.meeting_id = m)
         => (/\ ~start_call'.success
             /\ UNCHANGED <<active_meetings, sessions, monitors>>)]_vars

\* C9: when job creation fails, start returns a failure, the registry and
\* the sessions stay as they were and no monitor task is created.
C9_FailedCreationRegistersNothing ==
  [][(start_call' # start_call /\ ~start_call'.bot_result.success)
       => (/\ ~start_call'.success
           /\ UNCHANGED <<active_meetings, sessions, monitors>>)]_vars

C9_Witness ==
  /\ start_call.called
  /\ ~start_call.bot_result.success
  /\ ~start_call.success
  /\ Len(sessions) = 1
  /\ Len(monitors) = 1

\* C10: a failed poll leaves every session (status and processed flag) and
\* the task list as they were and the monitor goes back to sleep; a monitor
\* whose last poll failed is never ended by it.
C10_FailedPollChangesNothing ==
  [][\A i \in 1..Len(monitors) :
       /\ (PollStep(i) /\ ~monitors'[i].status_result.success)
            => /\ sessions' = sessions
               /\ monitors'[i].pc = "sleeping"
               /\ UNCHANGED <<procs, processing_queue, active_meetings, outputs>>
       /\ (monitors'[i].pc # "created" /\ ~monitors'[i].status_result.success)
            => monitors'[i].pc = "sleeping"]_vars

C10_Witness ==
  \E i \in 1..Len(monitors) :
     /\ monitors[i].pc = "sleeping"
     /\ ~monitors[i].status_result.success
     /\ sessions[monitors[i].meeting_data].status = "waiting_to_join"

\* ============================================ the processing routine alone
\* One meeting is started and processing runs are triggered through the two
\* manual entry points; every answer of the provider, of the completion
\* calls and of the store is drawn from the sets below, and call records
\* the step taken with its inputs.
ProcAttendeeLists == {<<>>, <<"a@x">>}

\* the debug start route passes on whatever the request dict holds under
\* client_id, None included
ProcClientIds == {"c1", None}

\* all kinds generated, one kind failing, or none generated
ProcGenOutcomes == {KindSet, {}} \cup {KindSet \ {k} : k \in KindSet}

\* the standard path inserts all, all but the summary, or nothing; the
\* direct insert would accept everything or nothing
ProcDbOutcomes ==
  {[standard |-> s, direct |-> d] :
      s \in {KindSet, KindSet \ {"summary"}, {}}, d \in {KindSet, {}}}

ProcStart ==
  /\ Len(sessions) = 0
  /\ \E m \in MeetingIds, c \in ProcClientIds, s \in SubClientIds,
        a \in ProcAttendeeLists, t \in MeetingTitles, ok \in BOOLEAN :
        start_meeting_recording(m, c, s, a, t, ok)
  /\ call' = [op |-> "start_meeting_recording"]
  /\ UNCHANGED <<client, chroma_client>>

ProcManual ==
  /\ \E m \in MeetingIds : manually_process_meeting(m)
  /\ call' = [op |-> "manually_process_meeting"]
  /\ UNCHANGED <<client, chroma_client>>

ProcDebug ==
  /\ \E m \in MeetingIds : debug_reprocess_meeting(m)
  /\ call' = [op |-> "debug_reprocess_meeting"]
  /\ UNCHANGED <<client, chroma_client>>

ProcBegin ==
  /\ \E k \in 1..MaxManual, dl \in DownloadReplies,
        gen \in ProcGenOutcomes, db \in ProcDbOutcomes :
        /\ ProcessBegin(k, dl, gen, db)
        /\ call' = [op |-> "process_begin",
                    meeting_data |-> active_meetings[procs[k].meeting_id],
                    download_result |-> dl, text |-> dl.embedded,
                    gen |-> gen, db |-> db]
  /\ UNCHANGED <<client, chroma_client>>

ProcDownloaded ==
  /\ \E k \in 1..MaxManual, text \in DownloadedTexts,
        gen \in ProcGenOutcomes, db \in ProcDbOutcomes :
        /\ ProcessDownloaded(k, text, gen, db)
        /\ call' = [op |-> "process_downloaded",
                    meeting_data |-> procs[k].meeting_data,
                    download_result |-> procs[k].download_result, text |-> text,
                    gen |-> gen, db |-> db]
  /\ UNCHANGED <<client, chroma_client>>

ProcessingNext == ProcStart \/ ProcManual \/ ProcDebug \/ ProcBegin \/ ProcDownloaded

ProcessingSpec == Init /\ [][ProcessingNext]_vars

\* ------------------------------------------ claims on the processing routine
\* the step just taken was a processing run that aborted: the URL fetch
\* failed, or the download gave nothing, or there was neither a URL nor an
\* embedded transcript
Aborted(c) ==
  \/ /\ c.op = "process_begin"
     /\ c.meeting_data # 0
     /\ \/ ~c.download_result.success
        \/ ~c.download_result.transcript_url /\ c.text = ""
  \/ c.op = "process_downloaded" /\ c.text = ""

\* the step just taken was a processing run that acquired a transcript,
\* downloaded or embedded
Acquired(c) ==
  \/ /\ c.op = "process_begin"
     /\ c.meeting_data # 0
     /\ c.download_result.success
     /\ ~c.download_result.transcript_url
     /\ c.text # ""
  \/ c.op = "process_downloaded" /\ c.text # ""

\* the kinds of the rows a step added
KindsAdded ==
  {outputs'[n].output_type : n \in (Len(outputs) + 1)..Len(outputs')}

\* C11: a processing run that aborts because the URL fetch fails or no
\* transcript can be acquired leaves every session (status and processed
\* flag) as it was and persists nothing.
C11_AbortLeavesNoTrace ==
  [][Aborted(call') => (sessions' = sessions /\ outputs' = outputs)]_vars

C11_Witness ==
  /\ Aborted(call)
  /\ call.op = "process_downloaded"
  /\ Len(sessions) = 1
  /\ ~sessions[1].processed
  /\ outputs = <<>>

\* C12: when a transcript URL exists but the download fails, the run falls
\* back to the transcript embedded in the job data and, if that is not
\* empty, goes on to the end of processing.
C12_DownloadFailureFallsBack ==
  [][(/\ call'.op = "process_downloaded"
      /\ call'.text = ""
      /\ call'.download_result.embedded # "")
        => sessions'[call'.meeting_data].processed]_vars

C14_DirectInsertFallback ==
  [][Acquired(call') =>
       \A k \in KindSet :
          (/\ k \in call'.gen
           /\ k \in KindsAttempted(sessions[call'.meeting_data])
           /\ k \notin call'.db.standard
           /\ k \in call'.db.direct)
             => k \in KindsAdded]_vars

\* C15: every processing run that acquires a transcript ends with
\* processed = true and processed_at set, whatever was generated or stored.
C15_ProcessedAfterTranscript ==
  [][Acquired(call') =>
       (/\ sessions'[call'.meeting_data].processed
        /\ sessions'[call'.meeting_data].processed_at # "absent")]_vars

C15_Witness ==
  /\ Acquired(call)
  /\ call.gen = {}
  /\ outputs = <<>>
  /\ sessions[call.meeting_data].processed
  /\ sessions[call.meeting_data].processed_at = "now"

\* C16: a run never overwrites or deletes a persisted artifact: it appends
\* its own rows under ids no earlier row has, so two runs on one completed
\* meeting leave two sets of artifacts.
C16_RunsOnlyAppend ==
  [][/\ Len(outputs') >= Len(outputs)
     /\ SubSeq(outputs', 1, Len(outputs)) = outputs
     /\ \A n \in (Len(outputs) + 1)..Len(outputs') :
           \A j \in 1..(n - 1) : outputs'[j].id # outputs'[n].id]_vars

C16_Witness ==
  /\ Len(outputs) = 2 * Len(Kinds)
  /\ StatusOf("m1") = "done"
  /\ manual_calls = 1
  /\ \A n \in 1..Len(Kinds) :
        /\ outputs[n].meeting_id = "m1"
        /\ outputs[n + Len(Kinds)].meeting_id = "m1"
        /\ outputs[n].output_type = outputs[n + Len(Kinds)].output_type
        /\ outputs[n].id # outputs[n + Len(Kinds)].id

\* ------------------------------------------------------ get_meeting_results
\* {} and None
EmptyDict == <<>>

NoContent == <<>>

\* dict.get(key, default)
Get(d, key, default) == IF key \in DOMAIN d THEN d[key] ELSE default

\* lines 1809-1812: the rows whose metadata names the meeting
MeetingOutputs(rows, meeting_id) ==
  SelectSeq(rows, LAMBDA output :
     Get(Get(output, "metadata", EmptyDict), "meeting_id", "None") = meeting_id)

\* lines 1821-1831: the content of the last row of a content type
ContentFor(rows, kind) ==
  LET at == {n \in 1..Len(rows) : Get(rows[n], "content_type", "None") = kind} IN
  IF at = {} THEN NoContent
  ELSE rows[CHOOSE n \in at : \A j \in at : j <= n].content

\* api get_meeting_results.  metadata_column: whether the outputs table has
\* a metadata column; a row written by the processing run then reads back
\* with metadata None, and None.get raises (HTTP 500).
get_meeting_results(meeting_id, metadata_column) ==
  LET none == [k \in KindSet |-> NoContent] IN
  IF active_meetings[meeting_id] = 0
    THEN [status_code |-> 404, contents |-> none]
  ELSE IF ~sessions[active_meetings[meeting_id]].processed
    THEN [status_code |-> 202, contents |-> none]
  ELSE IF metadata_column /\ outputs # <<>>
    THEN [status_code |-> 500, contents |-> none]
  ELSE [status_code |-> 200,
        contents |-> [k \in KindSet |->
                        ContentFor(MeetingOutputs(outputs, meeting_id), k)]]

\* C17: for a processed meeting get_results returns, for each kind, the
\* content of an artifact persisted for that meeting and kind, and leaves a
\* kind empty only when no artifact of that kind was persisted for it.
C17_ResultsShowPersisted ==
  \A m \in MeetingIds, metadata_column \in BOOLEAN :
     (active_meetings[m] # 0 /\ sessions[active_meetings[m]].processed) =>
        LET r == get_meeting_results(m, metadata_column)
            persisted(k) == {n \in 1..Len(outputs) :
                               outputs[n].meeting_id = m /\ outputs[n].output_type = k}
        IN /\ r.status_code = 200
           /\ \A k \in KindSet :
                 IF r.contents[k] = NoContent
                   THEN persisted(k) = {}
                   ELSE \E n \in persisted(k) : outputs[n].content = r.contents[k]

\* ================================================= the client on its own
\* Recording Job Client (RecallAIBot): its methods called one after the
\* other on one instance, each with the HTTP response it receives.

\* bot ids a caller passes; 0 stands for no id given (bot_id=None)
BotIds == {1, 2}

BotIdArgs == {0} \cup BotIds

\* GET /bot/{id} as get_bot_status reads it: histories of up to two events,
\* an event possibly without a code.
ClientEvents == Events \cup {[created_at |-> "t"]}

ClientBotReplies ==
  {[ok |-> FALSE, status_changes |-> <<>>, recordings |-> 0]} \cup
  {[ok |-> TRUE, status_changes |-> sc, recordings |-> r] :
      sc \in SeqsUpTo(ClientEvents, 2), r \in 0..1}

\* GET /bot/{id} as get_bot_data reads it: an error, or the bot's data in
\* one of two revisions.
DataReplies == {[ok |-> FALSE, rev |-> 0]} \cup {[ok |-> TRUE, rev |-> r] : r \in 1..2}

\* bot_id = bot_id or self.bot_id
EffectiveBotId(cl, bot_id) == IF bot_id # 0 THEN bot_id ELSE cl.bot_id

\* create_bot on the instance: line 86 stores the id of the created bot.
ClientCreateBot(provider_ok, new_id) ==
  LET bot_result == create_bot(provider_ok, new_id) IN
  /\ client' = IF bot_result.success THEN [client EXCEPT !.bot_id = bot_result.bot_id]
                                     ELSE client
  /\ call' = [op |-> "create_bot", result |-> bot_result]

\* get_bot_status(bot_id): without an id no request is made.
ClientGetBotStatus(bot_id, reply) ==
  LET id == EffectiveBotId(client, bot_id) IN
  /\ call' = [op |-> "get_bot_status", bot_id |-> id, requested |-> id # 0,
              reply |-> reply,
              result |-> IF id = 0 THEN [success |-> FALSE, status |-> "none"]
                                   ELSE get_bot_status(reply)]
  /\ UNCHANGED <<client, chroma_client>>

\* line 199: if self.bot_data and not force_refresh
CacheServes(cl, id, force_refresh) == cl.bot_data # NoData /\ ~force_refresh

\* RecallAIBot.get_bot_data: the instance afterwards, whether a request was
\* made, and the result.
get_bot_data(cl, bot_id, force_refresh, reply) ==
  LET id == EffectiveBotId(cl, bot_id) IN
  IF id = 0
    THEN [client |-> cl, requested |-> FALSE,
          result |-> [success |-> FALSE, data |-> NoData]]
    ELSE IF CacheServes(cl, id, force_refresh)
      THEN [client |-> cl, requested |-> FALSE,
            result |-> [success |-> TRUE, data |-> cl.bot_data]]
      ELSE IF reply.ok
        THEN LET data == [id |-> id, rev |-> reply.rev] IN
             [client |-> [cl EXCEPT !.bot_data = data], requested |-> TRUE,
              result |-> [success |-> TRUE, data |-> data]]
        ELSE [client |-> cl, requested |-> TRUE,
              result |-> [success |-> FALSE, data |-> NoData]]

ClientGetBotData(bot_id, force_refresh, reply) ==
  LET r == get_bot_data(client, bot_id, force_refresh, reply) IN
  /\ client' = r.client
  /\ call' = [op |-> "get_bot_data", bot_id |-> EffectiveBotId(client, bot_id),
              force_refresh |-> force_refresh, cached |-> client.bot_data # NoData,
              requested |-> r.requested, result |-> r.result]

\* Error codes of a 405 body, as the pieces the text is made of.
ErrorCodes ==
  {<<>>, <<"cannot_delete_bot">>, <<"bot_", "cannot_delete_bot", "_joined">>,
   <<"not_found">>}

\* Python's  part in text
Contains(text, part) == \E n \in 1..Len(text) : text[n] = part

\* DELETE /bot/{id}: a network error, or a response with a status code and
\* a body that is a JSON object with or without "code", or no JSON at all.
DeleteResponses ==
  {[network_error |-> TRUE, status_code |-> 0, json |-> FALSE, code |-> <<>>]} \cup
  {[network_error |-> FALSE, status_code |-> sc, json |-> j, code |-> c] :
      sc \in {204, 404, 405, 500}, j \in BOOLEAN, c \in ErrorCodes}

DeleteFailure == [raised |-> FALSE, success |-> FALSE, status |-> "none"]

\* A client that takes every 405 for an active bot.
CannotDeleteAny(resp) == TRUE

\* lines 318-329: the body parses and its code holds cannot_delete_bot;
\* the bare except swallows a body that is no JSON.
CannotDelete(resp) == resp.json /\ Contains(resp.code, "cannot_delete_bot")

\* lines 306-342: the body of the try block
DeleteAttempt(resp) ==
  IF resp.network_error
    THEN [raised |-> TRUE, success |-> FALSE, status |-> "none"]
    ELSE IF resp.status_code = 204
      THEN [raised |-> FALSE, success |-> TRUE, status |-> "deleted"]
      ELSE IF resp.status_code = 405 /\ CannotDelete(resp)
        THEN [raised |-> FALSE, success |-> TRUE, status |-> "active_cannot_delete"]
        ELSE DeleteFailure

\* RecallAIBot.delete_bot: lines 344-350 turn an exception into a failure.
delete_bot(cl, bot_id, resp) ==
  LET id == EffectiveBotId(cl, bot_id) IN
  IF id = 0 THEN DeleteFailure
  ELSE IF DeleteAttempt(resp).raised THEN DeleteFailure ELSE DeleteAttempt(resp)

ClientDeleteBot(bot_id, resp) ==
  /\ call' = [op |-> "delete_bot", bot_id |-> EffectiveBotId(client, bot_id),
              requested |-> EffectiveBotId(client, bot_id) # 0,
              response |-> resp, result |-> delete_bot(client, bot_id, resp)]
  /\ UNCHANGED <<client, chroma_client>>

CreateBotCall ==
  /\ \E ok \in BOOLEAN, id \in BotIds : ClientCreateBot(ok, id)
  /\ UNCHANGED <<serviceVars, chroma_client>>

GetBotStatusCall ==
  /\ \E b \in BotIdArgs, reply \in ClientBotReplies : ClientGetBotStatus(b, reply)
  /\ UNCHANGED <<serviceVars, chroma_client>>

GetBotDataCall ==
  /\ \E b \in BotIdArgs, f \in BOOLEAN, reply \in DataReplies : ClientGetBotData(b, f, reply)
  /\ UNCHANGED <<serviceVars, chroma_client>>

DeleteBotCall ==
  /\ \E b \in BotIdArgs, resp \in DeleteResponses : ClientDeleteBot(b, resp)
  /\ UNCHANGED <<serviceVars, chroma_client>>

ClientNext == CreateBotCall \/ GetBotStatusCall \/ GetBotDataCall \/ DeleteBotCall

ClientSpec == Init /\ [][ClientNext]_vars

\* ---------------------------------------------------- claims on the client
\* C18: poll_status returns the code of the last event of the status
\* history; with an empty history it returns done when the job has at
\* least one recording and waiting_to_join otherwise.
C18_LastEventCode ==
  (call.op = "get_bot_status" /\ call.requested /\ call.reply.ok) =>
     LET sc == call.reply.status_changes IN
       /\ call.result.success
       /\ (Len(sc) > 0 /\ "code" \in DOMAIN sc[Len(sc)])
             => call.result.status = sc[Len(sc)].code
       /\ Len(sc) = 0
             => call.result.status =
                  IF call.reply.recordings >= 1 THEN "done" ELSE "waiting_to_join"

C18_Witness ==
  /\ call.op = "get_bot_status"
  /\ call.reply.status_changes = <<[code |-> "done"], [code |-> "failed"]>>
  /\ call.result = [success |-> TRUE, status |-> "failed"]

\* C19: fetch_raw_job_data(job_id) returns the data of job_id: once data is
\* cached a call that does not force a refresh makes no request, a forced
\* refresh always makes one, and no call returns data fetched for another
\* job id.
C19_CacheReturnsOwnData ==
  (call.op = "get_bot_data" /\ call.bot_id # 0) =>
     /\ (call.cached /\ ~call.force_refresh) => ~call.requested
     /\ call.force_refresh => call.requested
     /\ call.result.success => call.result.data.id = call.bot_id

\* C20: delete_job succeeds exactly on a 204 and on a 405 whose body carries
\* the cannot-delete code (reported as active, cannot delete); every other
\* response and a network error give a failure result, never an exception.
C20_DeleteOutcome ==
  call.op = "delete_bot" =>
     LET resp == call.response
         active == /\ resp.status_code = 405
                   /\ resp.json
                   /\ \E n \in 1..Len(resp.code) : resp.code[n] = "cannot_delete_bot"
     IN /\ ~call.result.raised
        /\ call.result.success <=>
             (/\ call.requested
              /\ ~resp.network_error
              /\ (resp.status_code = 204 \/ active))
        /\ (call.result.success /\ resp.status_code = 405)
             => call.result.status = "active_cannot_delete"

C20_Witness ==
  /\ call.op = "delete_bot"
  /\ call.response.status_code = 405
  /\ call.result.status = "active_cannot_delete"

\* C25: every processing run that acquires a transcript attempts the
\* generation of all three kinds (summary, action items, follow-up email),
\* whatever the meeting's metadata, an empty attendee list included.
C25_AllThreeKindsAttempted ==
  [][Acquired(call') =>
       KindsAttempted(sessions[call'.meeting_data]) = KindSet]_vars

\* the run cannot persist the generated kind j: its record is not built,
\* or neither insert path stores it
PersistenceFails(j, md, gen, db) ==
  Generated(j, md, gen) /\ (~OutputBuilds(md) \/ ~Persisted(j, db))

\* C26: a persistence failure for one artifact (building its record, the
\* standard path, or the fallback) does not stop the run: every other
\* generated artifact is still handed to persistence, and processed
\* becomes true.
C26_PersistenceFailureDoesNotStopRun ==
  [][Acquired(call') =>
       LET md == sessions[call'.meeting_data]
           handed == HandedToPersistence(md, call'.gen, 1)
       IN /\ \A j \in KindSet, k \in KindSet :
               (/\ j # k
                /\ PersistenceFails(j, md, call'.gen, call'.db)
                /\ Generated(k, md, call'.gen))
                 => \E n \in 1..Len(handed) : handed[n] = k
          /\ sessions'[call'.meeting_data].processed]_vars

\* =================================== the functions checked on their inputs
\* Each of the specifications below starts from a service on which nothing
\* has been started, draws the input of one function in its first state and
\* applies the function in its step; call holds the input, then the input
\* together with the result.
IdleService ==
  /\ active_meetings = [m \in MeetingIds |-> 0]
  /\ sessions = <<>>
  /\ monitors = <<>>
  /\ procs = <<>>
  /\ processing_queue = <<>>
  /\ outputs = <<>>
  /\ start_call = NoCall
  /\ manual_calls = 0
  /\ client = NewClient
  /\ chroma_client = NoCollections

\* -------------------------------------- _extract_transcript_from_bot_data
\* recordings in one job's data
MaxRecordings == 2

\* A transcript field: the key is absent, or holds a string, or a dict
\* read with .get('text') and .get('content'); in a dict "" stands for a
\* key that is missing or holds an empty value, which `or` treats alike.
Absent == [type |-> "absent"]

TranscriptFields ==
  {Absent} \cup {[type |-> "str", value |-> t] : t \in {"", "a"}}
           \cup {[type |-> "dict", text |-> t, content |-> c] :
                   t \in {"", "a"}, c \in {"", "c"}}

\* media_shortcuts of a recording: no 'transcript' entry, or one whose
\* data dict is read with .get('text') and .get('content')
ShortcutFields ==
  {Absent} \cup {[type |-> "dict", text |-> t, content |-> ""] : t \in {"", "b"}}

Recordings ==
  {[transcript |-> t, media_shortcuts |-> s] :
      t \in TranscriptFields, s \in ShortcutFields}

\* the job data: its own transcript key and its recordings
BotDatas ==
  {[transcript |-> t, recordings |-> r] :
      t \in {Absent, [type |-> "str", value |-> "top"],
             [type |-> "dict", text |-> "top", content |-> ""]},
      r \in SeqsUpTo(Recordings, MaxRecordings)}

\* lines 260-268: the text a recording's transcript field gives, "" when
\* the branch returns nothing
RecordingText(td) ==
  IF td.type = "str" THEN td.value
  ELSE IF td.type = "dict" THEN (IF td.text # "" THEN td.text ELSE td.content)
  ELSE ""

\* lines 271-278: the text under media_shortcuts['transcript']['data']
ShortcutText(ms) ==
  IF ms.type = "dict" THEN (IF ms.text # "" THEN ms.text ELSE ms.content)
  ELSE ""

\* lines 258-281: the loop over the recordings, from recording n on
RECURSIVE ExtractFromRecordings(_, _)
ExtractFromRecordings(recordings, n) ==
  IF n > Len(recordings) THEN None
  ELSE IF RecordingText(recordings[n].transcript) # ""
    THEN RecordingText(recordings[n].transcript)
  ELSE IF ShortcutText(recordings[n].media_shortcuts) # ""
    THEN ShortcutText(recordings[n].media_shortcuts)
  ELSE ExtractFromRecordings(recordings, n + 1)

\* line 256: only the 'recordings' key of the job data is read
extract_transcript_from_bot_data(bot_data) ==
  ExtractFromRecordings(bot_data.recordings, 1)

ExtractInit ==
  /\ IdleService
  /\ \E d \in BotDatas : call = [op |-> "bot_data", bot_data |-> d]

ExtractStep ==
  /\ call.op = "bot_data"
  /\ call' = [op |-> "extract_transcript_from_bot_data",
              bot_data |-> call.bot_data,
              result |-> extract_transcript_from_bot_data(call.bot_data)]
  /\ UNCHANGED <<serviceVars, client, chroma_client>>

ExtractSpec == ExtractInit /\ [][ExtractStep]_vars

\* the locations in the order the claim gives: the job data's own
\* transcript field, then each recording's media-shortcut metadata
LocationsInOrder(d) ==
  <<RecordingText(d.transcript)>> \o
  [n \in 1..Len(d.recordings) |-> ShortcutText(d.recordings[n].media_shortcuts)]

FirstNonEmpty(texts) ==
  LET found == SelectSeq(texts, LAMBDA t : t # "")
  IN IF found = <<>> THEN None ELSE found[1]

\* C27: the fallback extraction inspects the job data in a fixed order,
\* first the top-level transcript field (a string, or an object with text
\* or content), then each recording's media-shortcut transcript metadata;
\* it returns the first non-empty text found, and nothing only when every
\* location is empty.
C27_FirstNonEmptyInOrder ==
  call.op = "extract_transcript_from_bot_data"
    => call.result = FirstNonEmpty(LocationsInOrder(call.bot_data))

\* ------------------------------------------------------- the vector store
\* Strings that are put together are sequences of their parts, so that a
\* formatted name is the concatenation the f-string produces.  The empty
\* sequence stands for a sub_client_id that is None or empty: the test
\* `if sub_client_id:` treats the two alike.
\* successful calls of store_document_chunks
MaxIngests == 2

NoSub == <<>>

ScopeClientIds == {<<"a">>, <<"b">>, <<"a", "_sub_", "b">>}

ScopeSubIds == {NoSub, <<"b">>}

\* the chunk lists handed to store_document_chunks
ChunkLists == {<<"t1", "t2">>}

\* n_results: the default of search_knowledge_base, and a smaller request
ResultLimits == {1, 5}

\* get_collection_name: f"client_{client_id}_sub_{sub_client_id}" or
\* f"client_{client_id}"
get_collection_name(client_id, sub_client_id) ==
  IF sub_client_id # NoSub
    THEN <<"client_">> \o client_id \o <<"_sub_">> \o sub_client_id
    ELSE <<"client_">> \o client_id

\* lines 96-109: the ids, documents and metadatas of the chunks of a file
NewChunks(name, client_id, file_id, text_chunks, sub_client_id) ==
  {[collection |-> name, id |-> <<file_id, i - 1>>, document |-> text_chunks[i],
    metadata |-> [file_id |-> file_id, chunk_index |-> i - 1,
                  client_id |-> client_id, sub_client_id |-> sub_client_id]] :
     i \in 1..Len(text_chunks)}

\* store_document_chunks: the collection is fetched or created, then the
\* embeddings are made (a call that can raise) and the chunks added; the
\* except clause re-raises.
store_document_chunks(client_id, file_id, text_chunks, sub_client_id, embed_ok) ==
  LET name == get_collection_name(client_id, sub_client_id) IN
  /\ chroma_client' =
       [names |-> chroma_client.names \cup {name},
        chunks |-> IF embed_ok
                     THEN chroma_client.chunks \cup
                          NewChunks(name, client_id, file_id, text_chunks, sub_client_id)
                     ELSE chroma_client.chunks]
  /\ call' = [op |-> "store_document_chunks", client_id |-> client_id,
              sub_client_id |-> sub_client_id, raised |-> ~embed_ok]

\* the chunks of a set as a list, by id
RECURSIVE ChunkList(_)
ChunkList(S) ==
  IF S = {} THEN <<>>
  ELSE LET first == CHOOSE x \in S : \A y \in S :
                       \/ x.id[1] < y.id[1]
                       \/ x.id[1] = y.id[1] /\ x.id[2] <= y.id[2]
       IN <<first>> \o ChunkList(S \ {first})

\* lines 159-167: the formatted results
FormatResults(found) ==
  [n \in 1..Len(found) |->
     [text |-> found[n].document, metadata |-> found[n].metadata, score |-> "score"]]

\* search_knowledge_base: [] when the collection does not exist and when
\* anything raises; otherwise the n_results nearest chunks of the
\* collection (nearest: the chunks the distance ranking picks).
search_knowledge_base(client_id, sub_client_id, n_results, embed_ok, nearest) ==
  LET name == get_collection_name(client_id, sub_client_id) IN
  IF name \notin chroma_client.names THEN <<>>
  ELSE IF ~embed_ok THEN <<>>
  ELSE FormatResults(ChunkList(nearest))

\* collection.query: what the ranking can pick from a collection, n_results
\* chunks or all of them when there are fewer
NearestIn(name, n_results) ==
  LET all == {c \in chroma_client.chunks : c.collection = name} IN
  {S \in SUBSET all :
     Cardinality(S) = IF Cardinality(all) < n_results THEN Cardinality(all)
                                                      ELSE n_results}

FilesStored == {c.metadata.file_id : c \in chroma_client.chunks}

StoreStep ==
  /\ Cardinality(FilesStored) < MaxIngests
  /\ \E c \in ScopeClientIds, s \in ScopeSubIds, t \in ChunkLists, ok \in BOOLEAN :
        store_document_chunks(c, Cardinality(FilesStored) + 1, t, s, ok)
  /\ UNCHANGED <<serviceVars, client>>

SearchStep ==
  /\ \E c \in ScopeClientIds, s \in ScopeSubIds, n \in ResultLimits, ok \in BOOLEAN :
       \E nearest \in NearestIn(get_collection_name(c, s), n) :
          call' = [op |-> "search_knowledge_base", client_id |-> c,
                   sub_client_id |-> s, n_results |-> n, raised |-> FALSE,
                   result |-> search_knowledge_base(c, s, n, ok, nearest)]
  /\ UNCHANGED <<serviceVars, client, chroma_client>>

VectorNext == StoreStep \/ SearchStep

VectorSpec == Init /\ [][VectorNext]_vars

\* C21: chunks ingested under one scope (client id, sub-client id) are
\* returned only by queries with that same scope: a query under one scope
\* never returns a chunk ingested under another, an organization with and
\* without a sub-unit included.
C21_ScopeIsolation ==
  call.op = "search_knowledge_base" =>
     \A n \in 1..Len(call.result) :
        /\ call.result[n].metadata.client_id = call.client_id
        /\ call.result[n].metadata.sub_client_id = call.sub_client_id

\* C22: a query on a scope for which nothing was ever ingested returns an
\* empty list and never raises or reports an error.
C22_EmptyScopeGivesEmptyList ==
  (/\ call.op = "search_knowledge_base"
   /\ ~\E c \in chroma_client.chunks :
          /\ c.metadata.client_id = call.client_id
          /\ c.metadata.sub_client_id = call.sub_client_id)
     => (call.result = <<>> /\ ~call.raised)

\* ------------------------------------------------------ _get_client_context
\* Texts are sequences of characters, so that a slice is a slice.
\* n_results of the call at line 302
ContextResults == 5

\* the slice [:500] at line 309
ContentBudget == 500

TextOfLength(n) == [i \in 1..n |-> "x"]

\* lengths of the retrieved documents: short, at the budget, beyond it
DocumentLengths == {1, 500, 501}

\* chunks as collection.query returns them
RetrievedChunks ==
  {[document |-> TextOfLength(n), metadata |-> [filename |-> "f.txt"]] :
      n \in DocumentLengths}

\* what search_knowledge_base can return to _get_client_context
SearchResults ==
  {FormatResults(found) : found \in SeqsUpTo(RetrievedChunks, ContextResults)}

\* text[:n]
Take(text, n) == SubSeq(text, 1, IF Len(text) < n THEN Len(text) ELSE n)

NoContextFound ==
  <<[prefix |-> "No specific client context found in knowledge base.",
     text |-> <<>>, suffix |-> ""]>>

\* lines 307-310: the three parts appended for one result
ContextParts(result) ==
  <<[prefix |-> "Document: ", text |-> Get(result, "filename", <<"Unknown">>),
     suffix |-> ""],
    [prefix |-> "Content: ",
     text |-> Take(Get(result, "content", <<>>), ContentBudget), suffix |-> "..."],
    [prefix |-> "---", text |-> <<>>, suffix |-> ""]>>

RECURSIVE JoinParts(_, _)
JoinParts(search_results, n) ==
  IF n > Len(search_results) THEN <<>>
  ELSE ContextParts(search_results[n]) \o JoinParts(search_results, n + 1)

\* _get_client_context, lines 305-314: the lines of the context block
get_client_context(search_results) ==
  IF search_results # <<>> THEN JoinParts(search_results, 1)
                           ELSE NoContextFound

ContextInit ==
  /\ IdleService
  /\ \E r \in SearchResults : call = [op |-> "search_results", search_results |-> r]

ContextStep ==
  /\ call.op = "search_results"
  /\ call' = [op |-> "get_client_context", search_results |-> call.search_results,
              result |-> get_client_context(call.search_results)]
  /\ UNCHANGED <<serviceVars, client, chroma_client>>

ContextSpec == ContextInit /\ [][ContextStep]_vars

\* C28: the context block built for a meeting contains the text of each
\* retrieved result (at most 5 results), each truncated to at most 500
\* characters; it is the no-context placeholder only when retrieval
\* returned no result.
C28_ContextHoldsResultTexts ==
  call.op = "get_client_context" =>
     /\ Len(call.search_results) <= 5
     /\ \A n \in 1..Len(call.search_results) :
           \E p \in 1..Len(call.result) :
              call.result[p].text = Take(call.search_results[n].text, 500)
     /\ \A p \in 1..Len(call.result) : Len(call.result[p].text) <= 500
     /\ call.result = NoContextFound => call.search_results = <<>>

\* --------------------------------------------------------------- chunk_text
\* A text is a sequence of characters; positions are counted from 0 as in
\* the code, so character i of the code is text[i + 1] here.  call holds
\* the arguments, the loop variables start and chunks, and for each chunk
\* kept the span of the text it was cut from.
\* the 100 of line 109: how far before the window's end a sentence end is
\* looked for
SentenceMargin == 100

\* chunk_size and overlap: the defaults, and two smaller windows
ChunkParams ==
  {[chunk_size |-> 1000, overlap |-> 200],
   [chunk_size |-> 120, overlap |-> 20],
   [chunk_size |-> 100, overlap |-> 0]}

TextLengths == {0, 1, 99, 100, 130, 1000, 2400}

\* positions of the full stops of a text: none or one
DotPositions == {{}, {0}, {20}, {50}, {950}}

\* the stretch of blanks of a text, from a position up to another: none,
\* the whole text, or twenty characters around position 1000
BlankStretches == {<<0, 0>>, <<0, 2400>>, <<990, 1010>>}

TextWith(n, dots, blanks) ==
  [i \in 1..n |-> IF (i - 1) \in dots THEN "."
                  ELSE IF blanks[1] <= i - 1 /\ i - 1 < blanks[2] THEN " "
                  ELSE "a"]

Texts ==
  {TextWith(n, d, b) : n \in TextLengths, d \in DotPositions, b \in BlankStretches}

\* a slice index as Python reads it: negative counts from the end, and the
\* result is kept within 0..n
SliceIndex(i, n) ==
  IF i < 0 THEN (IF i + n < 0 THEN 0 ELSE i + n)
           ELSE (IF i > n THEN n ELSE i)

\* text[a:b]
Slice(text, a, b) ==
  SubSeq(text, SliceIndex(a, Len(text)) + 1, SliceIndex(b, Len(text)))

\* text.rfind(ch, lo, hi): the highest position in [lo, hi) holding ch, or -1
rfind(text, ch, lo, hi) ==
  LET hits == {i \in SliceIndex(lo, Len(text))..(SliceIndex(hi, Len(text)) - 1) :
                  text[i + 1] = ch}
  IN IF hits = {} THEN -1 ELSE CHOOSE i \in hits : \A j \in hits : j <= i

\* s holds blanks only
Blank(s) == \A i \in 1..Len(s) : s[i] = " "

\* the first and the last position of s (from 1) that hold no blank
FirstInk(s) ==
  CHOOSE i \in 1..Len(s) : s[i] # " " /\ \A j \in 1..(i - 1) : s[j] = " "

LastInk(s) ==
  CHOOSE i \in 1..Len(s) : s[i] # " " /\ \A j \in (i + 1)..Len(s) : s[j] = " "

\* s.strip()
strip(s) == IF Blank(s) THEN <<>> ELSE SubSeq(s, FirstInk(s), LastInk(s))

\* A search for the sentence end over the whole window.
SearchFromWindowStart(start, chunk_size) == start

\* line 109: the search covers the last 100 characters of the window
SearchFrom(start, chunk_size) == start + chunk_size - SentenceMargin

\* lines 104-111: where the window that starts at start ends
WindowEnd(text, start, chunk_size) ==
  LET end == start + chunk_size IN
  IF end < Len(text)
    THEN LET sentence_end == rfind(text, ".", SearchFrom(start, chunk_size), end)
         IN IF sentence_end > start THEN sentence_end + 1 ELSE end
    ELSE end

\* the span of the text that is left of the slice s, cut at position a,
\* when s is stripped
SpanOf(a, s) == [from |-> a + FirstInk(s) - 1, to |-> a + LastInk(s)]

ChunkInit ==
  /\ IdleService
  /\ \E t \in Texts, p \in ChunkParams :
        call = [op |-> "chunk_text", pc |-> "called", text |-> t,
                chunk_size |-> p.chunk_size, overlap |-> p.overlap,
                start |-> 0, chunks |-> <<>>, spans |-> <<>>]

\* lines 97-101: the early return, or the entry into the loop
ChunkBegin ==
  /\ call.pc = "called"
  /\ IF call.text = <<>> \/ Len(call.text) < call.chunk_size
       THEN call' = [call EXCEPT
                       !.pc = "returned",
                       !.chunks = IF call.text # <<>> THEN <<call.text>> ELSE <<>>,
                       !.spans = IF call.text # <<>>
                                   THEN <<[from |-> 0, to |-> Len(call.text)]>>
                                   ELSE <<>>]
       ELSE call' = [call EXCEPT !.pc = "loop"]
  /\ UNCHANGED <<serviceVars, client, chroma_client>>

\* lines 103-120: one iteration of the loop; end, the slice and the chunk
\* are bound one after the other, as the statements of the body set them
ChunkIterate ==
  /\ call.pc = "loop"
  /\ call.start < Len(call.text)
  /\ \E end \in {WindowEnd(call.text, call.start, call.chunk_size)} :
     \E window \in {Slice(call.text, call.start, end)} :
     \E chunk \in {strip(window)} :
     \E start \in {end - call.overlap} :
        call' = [call EXCEPT
                   !.chunks = IF chunk # <<>> THEN Append(@, chunk) ELSE @,
                   !.spans = IF chunk # <<>>
                               THEN Append(@, SpanOf(call.start, window))
                               ELSE @,
                   !.start = start,
                   !.pc = IF start >= Len(call.text) THEN "returned" ELSE "loop"]
  /\ UNCHANGED <<serviceVars, client, chroma_client>>

ChunkNext == ChunkBegin \/ ChunkIterate

ChunkSpec == ChunkInit /\ [][ChunkNext]_vars

\* the call runs whenever it can
ChunkFairSpec == ChunkSpec /\ WF_vars(ChunkNext)

RECURSIVE TotalLength(_, _)
TotalLength(chunks, n) ==
  IF n > Len(chunks) THEN 0 ELSE Len(chunks[n]) + TotalLength(chunks, n + 1)

\* C23: for every input text the lengths of the chunks add up to at least
\* the length of the text.
C23_ChunksCoverText ==
  call.op = "chunk_text" /\ call.pc = "returned"
    => TotalLength(call.chunks, 1) >= Len(call.text)

\* C24: a 2,400-character document chunked with window 1000 and overlap
\* 200 gives exactly 3 chunks, each of at most 1000 characters, and
\* consecutive chunks share at least 150 characters.
C24_ReferenceDocument ==
  (/\ call.op = "chunk_text" /\ call.pc = "returned"
   /\ Len(call.text) = 2400
   /\ call.chunk_size = 1000 /\ call.overlap = 200)
    => /\ Len(call.chunks) = 3
       /\ \A n \in 1..Len(call.chunks) : Len(call.chunks[n]) <= 1000
       /\ \A n \in 1..(Len(call.spans) - 1) :
             call.spans[n].to - call.spans[n + 1].from >= 150

\* C30: chunk_text terminates on every text whenever chunk_size >= 100 and
\* overlap <= chunk_size - 100: the window start grows in every iteration
\* of the loop, and the call returns.
C30_ChunkTextTerminates ==
  /\ [][(/\ call.op = "chunk_text" /\ call.pc = "loop"
         /\ call.chunk_size >= 100
         /\ call.overlap <= call.chunk_size - 100)
           => call'.start > call.start]_vars
  /\ (call.op = "chunk_text" /\ call.chunk_size >= 100
        /\ call.overlap <= call.chunk_size - 100)
       ~> (call.pc = "returned")

C30_Witness ==
  /\ call.op = "chunk_text" /\ call.pc = "returned"
  /\ call.chunk_size = 120 /\ call.overlap = 20
  /\ Len(call.text) = 130
  /\ call.spans = <<[from |-> 0, to |-> 21], [from |-> 1, to |-> 121],
                    [from |-> 101, to |-> 130]>>

\* ================================================ two meetings side by side
\* Two meetings with different scope keys and titles are started, each any
\* number of times within the bound; their monitors and processing runs
\* interleave as the event loop allows.
FrameMeetingIds == {"m1", "m2"}

FrameRequests ==
  {[meeting_id |-> "m1", client_id |-> "c1", sub_client_id |-> None,
    attendees |-> <<"a@x">>, meeting_title |-> "Meeting"],
   [meeting_id |-> "m2", client_id |-> "c2", sub_client_id |-> "s2",
    attendees |-> <<>>, meeting_title |-> "Review"]}

FrameInit ==
  /\ active_meetings = [m \in FrameMeetingIds |-> 0]
  /\ sessions = <<>>
  /\ monitors = <<>>
  /\ procs = <<>>
  /\ processing_queue = <<>>
  /\ outputs = <<>>
  /\ start_call = NoCall
  /\ manual_calls = 0
  /\ client = NewClient
  /\ chroma_client = NoCollections
  /\ call = NoClientCall

FrameStart ==
  /\ \E r \in FrameRequests, ok \in BOOLEAN :
        start_meeting_recording(r.meeting_id, r.client_id, r.sub_client_id,
                                r.attendees, r.meeting_title, ok)
  /\ UNCHANGED <<clientVars, chroma_client>>

\* the replies of a job that has no recording yet: an error, an empty
\* history, or a history ending in one of the codes
FrameReplies == {reply \in BotReplies : reply.recordings = 0}

FrameMonitorPoll ==
  /\ \E i \in 1..MaxStarts, reply \in FrameReplies : MonitorPoll(i, reply)
  /\ UNCHANGED <<clientVars, chroma_client>>

FrameNext ==
  \/ FrameStart
  \/ MonitorBeginStep
  \/ FrameMonitorPoll
  \/ ProcessBeginStep
  \/ ProcessDownloadedStep

FrameSpec == FrameInit /\ [][FrameNext]_vars

\* the keys of a session that are set at creation and describe the meeting
CreationKeys ==
  {"meeting_id", "bot_id", "client_id", "sub_client_id", "attendees", "meeting_title"}

\* the step leaves the registry as it was, keeps every session, leaves the
\* sessions of the meetings other than m untouched and the creation keys
\* of every session at their values
ChangesOnlySessionsOf(m) ==
  /\ active_meetings' = active_meetings
  /\ Len(sessions') = Len(sessions)
  /\ \A n \in 1..Len(sessions) :
        /\ sessions[n].meeting_id # m => sessions'[n] = sessions[n]
        /\ \A key \in CreationKeys : sessions'[n][key] = sessions[n][key]

\* a step of the monitor task i, and one of the processing task k
MonitorStepOf(i) ==
  MonitorBegin(i) \/ \E reply \in FrameReplies : MonitorPoll(i, reply)

ProcessingStepOf(k) ==
  \/ \E dl \in ServiceDownloadReplies, gen \in GenOutcomes, db \in DbOutcomes :
        ProcessBegin(k, dl, gen, db)
  \/ \E text \in DownloadedTexts, gen \in GenOutcomes, db \in DbOutcomes :
        ProcessDownloaded(k, text, gen, db)

\* C29: the monitor loop and the processing routine of meeting m change
\* only m's session: every other session stays as it was, no session is
\* removed, and m's own title, attendees, job id and scope keys keep the
\* values set at creation.
C29_OnlyOwnSessionChanges ==
  [][/\ \A i \in 1..Len(monitors) :
          MonitorStepOf(i) => ChangesOnlySessionsOf(monitors[i].meeting_id)
     /\ \A k \in 1..Len(procs) :
          ProcessingStepOf(k) => ChangesOnlySessionsOf(procs[k].meeting_id)]_vars

C29_Witness ==
  /\ Len(sessions) = 2
  /\ sessions[1].meeting_id = "m1" /\ sessions[2].meeting_id = "m2"
  /\ sessions[1].status = "done" /\ sessions[1].processed
  /\ sessions[1].client_id = "c1" /\ sessions[1].meeting_title = "Meeting"
  /\ sessions[2] = NewMeetingData("m2", 2, "c2", "s2", <<>>, "Review")

====
